---- MODULE Spec2Model ----
(***************************************************************************)
(* Lifecycle of the Nodecaf application server (lib/main.js).               *)
(*                                                                         *)
(* lib/main.js holds two generations of the class:                          *)
(*   - the state-based class (lines 60-165): a string `state` guarded by    *)
(*     polling retries (retryShortly);                                      *)
(*   - the promise-based class (lines 200-355): `running` / `stopped`       *)
(*     markers that are promises while a transition is in progress.         *)
(*                                                                         *)
(* A lifecycle call (start, stop, restart) is an async function: it runs    *)
(* atomically from one await to the next.  Every action below is one such   *)
(* synchronous segment, or one event of the environment (a timer, a hook    *)
(* settling, the listener reporting ready or closed).                       *)
(***************************************************************************)
EXTENDS Integers, Sequences, FiniteSets, TLC

\* Number of lifecycle calls the embedding application issues.
MaxCalls == 3

Calls == 1..MaxCalls

\* Number of lifecycle calls issued on an instance of the promise-based class.
MaxPCalls == 4

PCalls == 1..MaxPCalls

\* Configuration layers that restart(conf) may be given (index 0: no argument).
Layers == << [port |-> 0], [myKey |-> 3] >>

\* opts.conf handed to the constructor: a configured port, or none (headless).
InitConfs == { [port |-> 80], [myKey |-> 0] }

\* Keys the startup hook may put into the exposed-globals map.
GlobalKeys == { "db" }

VARIABLES
    state,              \* this.state
    conf,               \* this.conf
    global,             \* this.global: [defined, keys]
    servers,            \* every transport listener created so far, by state
    _server,            \* this._server: index into servers, 0 when unset
    calls,              \* the lifecycle calls issued by the application
    alwaysRebuildAPI,   \* this._alwaysRebuildAPI / this.alwaysRebuildAPI
    hist,               \* observable effects: hook runs, API builds, log records
    running,            \* promise-based class: this.running
    stopped,            \* promise-based class: this.stopped
    resolved,           \* promise-based class: the promises resolved so far
    types,              \* accept(types): the argument, then the closed-over list
    handler,            \* accept(types): whether the filter has been returned
    req,                \* the request handed to the filter: body, body.type
    res,                \* its response: status, body, ended; next: chain continued
    opts,               \* the options handed to the constructor
    thrown,             \* what the constructor threw, "none" if nothing
    objectOrPath,       \* the argument of the last call of setup()
    layers,             \* promise-based class: the layers handed to setup() so far
    listenPort,         \* promise-based class: the port last handed to listen()
    router,             \* the routes and the interceptor registered, the traffic
    ctx,                \* the request contexts, one per request in flight
    adapter,            \* an adapted handler: the function, its call, the continuation
    ws,                 \* the WebSocket connections
    invoked             \* call(fn, ...args): what fn was invoked with

vars == << state, conf, global, servers, _server, calls, alwaysRebuildAPI, hist,
           running, stopped, resolved, types, handler, req, res, opts, thrown,
           objectOrPath, layers, listenPort, router, ctx, adapter, ws, invoked >>

\* The call of the constructor.
cvars == << opts, thrown, objectOrPath >>

\* The content-type filter and its request.
avars == << types, handler, req, res >>

\* The configuration of the promise-based class, layer by layer.
uvars == << layers, listenPort >>

\* The routes and the requests dispatched to them.
rvars == << router, ctx >>

\* The router, the adapter of handlers, the WebSocket connections, call().
hvars == << rvars, adapter, ws, invoked >>

\* What no lifecycle step changes: the constructor option, the filter, the
\* call of the constructor, the layers of the configuration, the requests.
fixed == << alwaysRebuildAPI, avars, cvars, uvars, hvars >>

\* The lifecycle of the server.
lvars == << state, conf, global, servers, _server, calls, alwaysRebuildAPI, hist,
           running, stopped, resolved >>

\* The fields of the state-based class only, and of the promise-based class only.
svars == << state, global >>
pvars == << running, stopped, resolved >>

-----------------------------------------------------------------------------
(* Configuration *)

\* confort(this.conf, layer): top-level keys of the layer override.
Merge(c, layer) ==
    [ k \in (DOMAIN c) \cup (DOMAIN layer) |->
        IF k \in DOMAIN layer THEN layer[k] ELSE c[k] ]

\* Faulty variant: an absent port defaults to 80.
ConfPort_Default(c) == IF "port" \in DOMAIN c /\ c["port"] # 0 THEN c["port"] ELSE 80

\* this.conf.port as a condition: an absent key reads as undefined.
ConfPort(c) == IF "port" \in DOMAIN c THEN c["port"] ELSE 0

-----------------------------------------------------------------------------
(* Calls *)

\* op: the operation called; fn: the function now executing (restart runs
\* stop, then start); pc: where it is suspended; via: whether fn went through
\* retryShortly; res: what the call resolved to; arg: the layer given to
\* restart; srv: the listener awaited; aw: the promise awaited; at: where the
\* server was when the call was made; seen: for restart, how many times the
\* startup and the shutdown hook had been invoked when the call was made.
NoCall ==
    [ op |-> "none", fn |-> "none", pc |-> "idle", via |-> FALSE,
      res |-> "pending", arg |-> 0, srv |-> 0, aw |-> 0, at |-> "none",
      seen |-> << 0, 0 >> ]

\* A settled call keeps its operation, its outcome, and whether its function
\* went through retryShortly.
Settled(r) == [ NoCall EXCEPT !.op = r.op, !.via = r.via, !.at = r.at ]

\* The async function `r.fn` of call r returns v.
Returned(r, v) ==
    IF r.op = "restart" /\ r.fn = "stop"
    THEN [ r EXCEPT !.pc = "afterStop", !.via = FALSE, !.srv = 0 ]
    ELSE [ Settled(r) EXCEPT !.pc = "done",
                    !.res = IF r.op = "restart" THEN "undefined" ELSE v ]

\* The async function of call r throws.  retryShortly chains fn().then(done)
\* with no rejection handler: the promise it returned then never settles.
Rejected(r) ==
    IF r.via THEN [ Settled(r) EXCEPT !.pc = "lost" ]
    ELSE [ Settled(r) EXCEPT !.pc = "rejected", !.res = "rejected" ]

\* await p, for p a value of this.running or of this.stopped: whether the
\* awaited value has settled.
RunningSettled(p) == p = 0 \/ << "running", p >> \in resolved

StoppedSettled(p) == p <= 0 \/ << "stopped", p >> \in resolved

\* An await on a value that has settled resumes in a microtask, and the event
\* loop runs no timer and no I/O callback before the microtasks are done.
MicrotaskPending ==
    \E c \in DOMAIN calls :
        \/ calls[c].pc = "afterStop"
        \/ calls[c].pc = "awaitStopped" /\ StoppedSettled(calls[c].aw)
        \/ calls[c].pc = "awaitRunning" /\ RunningSettled(calls[c].aw)

-----------------------------------------------------------------------------
(* Listeners *)

\* A listener holds its port from listen() until its close has completed.
Bound(s) == s \in { "binding", "listening", "closing" }

BoundServers == { i \in DOMAIN servers : Bound(servers[i]) }

\* listen(): the port is taken when another listener still holds it.
Listen == IF BoundServers = {} THEN "binding" ELSE "failed"

\* Faulty variant: stop() does not close the listener.
Close_Never(s) == s

\* server.close(): a listening server stops and drains.
Close(s) == IF s = "listening" THEN "closing" ELSE s

-----------------------------------------------------------------------------
(* Constructor of the state-based class *)

\* What is not there: the state of an instance not constructed yet, a header
\* that was not sent.
Undefined == "<undefined>"

\* What an option may hold: left out, a function, another truthy value (3),
\* a falsy value (0, '', null, false).
OptKinds == { "undefined", "function", "truthy", "falsy" }

ConfKeys == { "key", "key2" }

ConfValues == { "value", "value2" }

\* Configuration objects handed to the constructor and to setup().
SetupLayers == UNION { [ ks -> ConfValues ] : ks \in SUBSET ConfKeys }

\* A configuration argument: left out, or an object.
ConfArgs == { [ undefined |-> TRUE ] } \cup { [ object |-> l ] : l \in SetupLayers }

\* The argument of the constructor when it is no object with options: left
\* out (the default {} applies), null, or a boolean.
NoOptions(k) ==
    [ is |-> k, api |-> "undefined", startup |-> "undefined",
      shutdown |-> "undefined", server |-> "undefined",
      conf |-> [ undefined |-> TRUE ], alwaysRebuildAPI |-> FALSE ]

\* The arguments of the constructor tried.
OptsArgs ==
    [ is : { "object" }, api : OptKinds, startup : OptKinds, shutdown : OptKinds,
      server : OptKinds, conf : ConfArgs, alwaysRebuildAPI : BOOLEAN ]
    \cup { NoOptions(k) : k \in { "undefined", "null", "boolean" } }

\* No route is registered and no request is in flight.
IdleRouter ==
    /\ router = << >>
    /\ ctx = << >>

\* No handler is adapted, no connection is open, call() was not called.
IdleAdapter == adapter = << >>
IdleSockets == ws = << >>
IdleCall == invoked = << >>

\* Nothing but the server is at work.
IdleLibrary ==
    /\ IdleRouter
    /\ IdleAdapter
    /\ IdleSockets
    /\ IdleCall

\* The construction is over and threw nothing.
Constructed ==
    /\ opts = NoOptions("undefined")
    /\ thrown = "none"
    /\ objectOrPath = [ undefined |-> TRUE ]
    /\ layers = << >>
    /\ listenPort = 0

\* opts.x || default: a falsy option gives way to the default, a function.
OrDefault(k) == IF k \in { "undefined", "falsy" } THEN "function" ELSE k

\* Faulty variant: the type of the options is not asserted.
IsFunction_Any(k) == TRUE

\* typeof x == 'function'
IsFunction(k) == k = "function"

\* validateOpts: the TypeError it ends with, "none" when every assertion holds.
\* Reading an option of null throws a TypeError too.
validateOpts(o) ==
    IF o.is = "boolean" THEN "TypeError"
    ELSE IF o.is = "null" THEN "TypeError"
    ELSE IF /\ IsFunction(OrDefault(o.api))
            /\ IsFunction(OrDefault(o.startup))
            /\ IsFunction(OrDefault(o.shutdown))
            /\ IsFunction(OrDefault(o.server))
         THEN "none"
         ELSE "TypeError"

\* objectOrPath || {}
ObjectOrPath(x) == IF "object" \in DOMAIN x THEN x.object ELSE << >>

\* Faulty variant: setup() replaces the configuration by the layer.
Setup_Replace(c, layer) == layer

\* Faulty variant: setup() drops the layer.
Setup_Ignore(c, layer) == c

\* setup(layer)
Setup(c, layer) == Merge(c, layer)

\* new Nodecaf(opts): validate, then conf = {}, state = 'standby',
\* setup(opts.conf), and the API built unless it is rebuilt at every start.
Constructor ==
    /\ state = Undefined
    /\ thrown = "none"
    /\ IF validateOpts(opts) # "none"
       THEN /\ thrown' = validateOpts(opts)
            /\ UNCHANGED << state, conf, alwaysRebuildAPI, hist, objectOrPath >>
       ELSE /\ alwaysRebuildAPI' = opts.alwaysRebuildAPI
            /\ state' = "standby"
            /\ objectOrPath' = opts.conf
            /\ conf' = Setup(<< >>, ObjectOrPath(opts.conf))
            /\ hist' = [ hist EXCEPT !.api = IF opts.alwaysRebuildAPI THEN 0 ELSE 1 ]
            /\ UNCHANGED thrown
    /\ UNCHANGED << global, servers, _server, calls, running, stopped, resolved,
                    avars, uvars, hvars, opts >>

\* app.setup(objectOrPath), called by the application on the instance.
SetupCall ==
    /\ state = "standby"
    /\ \E x \in ConfArgs :
         /\ objectOrPath' = x
         /\ conf' = Setup(conf, ObjectOrPath(x))
    /\ UNCHANGED << state, global, servers, _server, calls, alwaysRebuildAPI, hist,
                    running, stopped, resolved, avars, uvars, hvars, opts, thrown >>

-----------------------------------------------------------------------------
(* Content-type filter: accept(types) *)

\* Longest whitelist handed to accept().
MaxTypes == 2

SHORT_TYPES ==
    [ form |-> "multipart/form-data",
      urlencoded |-> "application/x-www-form-urlencoded",
      json |-> "application/json" ]

\* Entries a whitelist may hold: the aliases and some full mime-types.
TypeNames == { "json", "urlencoded", "form", "text/html", "application/json" }

\* What accept() may be given: one type, or a list of types.
TypeArgs ==
    { [ single |-> t ] : t \in TypeNames } \cup
    { [ list |-> l ] : l \in UNION { [ 1..n -> TypeNames ] : n \in 0..MaxTypes } }

\* req.body.type of the requests tried.
ContentTypes ==
    { Undefined, "application/json", "multipart/form-data", "text/html",
      "text/xml", "json" }

\* The requests tried: with and without a body.
Requests == [ body : { "", "{\"foo\":\"bar\"}" }, type : ContentTypes ]

\* No filter returned yet; no response written, chain not continued.
NoHandler == [ made |-> FALSE, types |-> << >> ]

NoRes == [ status |-> 0, body |-> "", ended |-> FALSE, next |-> FALSE ]

\* [].concat(types)
Concat(t) == IF "single" \in DOMAIN t THEN << t.single >> ELSE t.list

\* Faulty variant: the aliases are not expanded.
Expand_None(t) == t

\* t => SHORT_TYPES[t] || t
Expand(t) == IF t \in DOMAIN SHORT_TYPES THEN SHORT_TYPES[t] ELSE t

\* Faulty variant: an empty body is filtered like any other.
EmptyBody_Never(b) == FALSE

\* body !== '', negated
EmptyBody(b) == b = ""

\* types.includes(x)
Includes(l, x) == \E i \in DOMAIN l : l[i] = x

\* Faulty variant: the filter rejects and goes on to next().
Reject_AndNext == [ status |-> 415, body |-> "", ended |-> TRUE, next |-> TRUE ]

\* res.status(415).end()
Reject == [ status |-> 415, body |-> "", ended |-> TRUE, next |-> FALSE ]

\* accept(types): expand the entries and return the filter.
Accept ==
    /\ ~handler.made
    /\ handler' = [ made |-> TRUE,
                    types |-> [ i \in DOMAIN Concat(types) |-> Expand(Concat(types)[i]) ] ]
    /\ UNCHANGED << lvars, cvars, uvars, hvars, types, req, res >>

\* The filter handles the request: ({ body, req, res, next }) => ...
Filter ==
    /\ handler.made
    /\ res = NoRes
    /\ res' = IF ~EmptyBody(req.body) /\ ~Includes(handler.types, req.type)
              THEN Reject
              ELSE [ NoRes EXCEPT !.next = TRUE ]
    /\ UNCHANGED << lvars, cvars, uvars, hvars, types, handler, req >>

-----------------------------------------------------------------------------
(* State-based class: start() *)

\* Faulty variants of the guards of start(), used to test the properties.
StartGuardNoop_RunningOnly(s) == s = "running"

StartGuardNoop_StartingOnly(s) == s = "starting"

StartGuardRetry_Never(s) == FALSE

\* if(this.state in { running: 1, starting: 1 }) return this.state;
StartGuardNoop(s) == s \in { "running", "starting" }

\* if(this.state == 'stopping') return await retryShortly(() => this.start());
StartGuardRetry(s) == s = "stopping"

\* start(), up to its first await, run by call c whose record is r.
StartBody(c, r) ==
    IF StartGuardNoop(state)
    THEN /\ calls' = [ calls EXCEPT ![c] = Returned(r, state) ]
         /\ UNCHANGED state
    ELSE IF StartGuardRetry(state)
    THEN /\ calls' = [ calls EXCEPT ![c] = [ r EXCEPT !.pc = "retry", !.via = TRUE ] ]
         /\ UNCHANGED state
    ELSE /\ state' = "starting"
         /\ calls' = [ calls EXCEPT ![c] = [ r EXCEPT !.pc = "delay" ] ]

\* Faulty variant: start() builds the API whatever the option.
RebuildAPI_Always(n) == n + 1

\* if(this._alwaysRebuildAPI) this._api = new API(this, this._apiSpec);
\* n counts the invocations of the API builder.
RebuildAPI(n) == IF alwaysRebuildAPI THEN n + 1 ELSE n

\* The startup delay has elapsed: fresh globals, API rebuild, startup hook.
DelayDone(c) ==
    /\ ~MicrotaskPending
    /\ calls[c].pc = "delay"
    /\ global' = [ defined |-> TRUE, keys |-> {} ]
    /\ hist' = [ hist EXCEPT
                   !.api = RebuildAPI(@),
                   !.startup = @ + 1 ]
    /\ calls' = [ calls EXCEPT ![c].pc = "startupHook" ]
    /\ UNCHANGED << state, conf, servers, _server, fixed, pvars >>

\* startServer.call(this): create the listener, listen on conf.port.
StartServer(c) ==
    /\ servers' = Append(servers, Listen)
    /\ _server' = Len(servers) + 1
    /\ calls' = [ calls EXCEPT ![c].pc = "binding", ![c].srv = Len(servers) + 1 ]
    /\ UNCHANGED state

\* The startup hook has completed, having exposed the keys ks.
StartupOk(c) ==
    /\ calls[c].pc = "startupHook"
    /\ \E ks \in SUBSET GlobalKeys :
         global' = IF global.defined
                   THEN [ global EXCEPT !.keys = @ \cup ks ] ELSE global
    /\ IF ConfPort(conf) # 0
       THEN StartServer(c)
       ELSE /\ state' = "running"
            /\ calls' = [ calls EXCEPT ![c] = Returned(calls[c], "running") ]
            /\ UNCHANGED << servers, _server >>
    /\ UNCHANGED << conf, fixed, pvars, hist >>

\* The startup hook has thrown or rejected.
StartupFail(c) ==
    /\ calls[c].pc = "startupHook"
    /\ calls' = [ calls EXCEPT ![c] = Rejected(calls[c]) ]
    /\ hist' = [ hist EXCEPT !.failed = TRUE ]
    /\ UNCHANGED << state, conf, global, servers, _server, fixed, pvars >>

\* Faulty variant: start() goes on without the listen callback.
Ready_NoWait(s) == s

\* The listener reports ready: the listen callback fires.
Ready(s) == IF s = "binding" THEN "listening" ELSE s

\* The listener has reported ready and start() resumes after startServer.
StartFinish(c) ==
    /\ ~MicrotaskPending
    /\ calls[c].pc = "binding"
    /\ servers[calls[c].srv] # "failed"
    /\ servers' = [ servers EXCEPT ![calls[c].srv] = Ready(@) ]
    /\ state' = "running"
    /\ calls' = [ calls EXCEPT ![c] = Returned(calls[c], "running") ]
    /\ UNCHANGED << conf, global, _server, fixed, pvars, hist >>

-----------------------------------------------------------------------------
(* State-based class: stop() *)

\* Faulty variants of the guards of stop(), used to test the properties.
StopGuardNoop_StoppingOnly(s) == s = "stopping"

StopGuardRetry_Never(s) == FALSE

\* if(this.state in { stopping: 1, standby: 1 }) return this.state;
StopGuardNoop(s) == s \in { "stopping", "standby" }

\* if(this.state == 'starting') return await retryShortly(() => this.stop());
StopGuardRetry(s) == s = "starting"

\* stop(), up to its first await, run by call c whose record is r.
StopBody(c, r) ==
    IF StopGuardNoop(state)
    THEN /\ calls' = [ calls EXCEPT ![c] = Returned(r, state) ]
         /\ UNCHANGED << state, servers, hist >>
    ELSE IF StopGuardRetry(state)
    THEN /\ calls' = [ calls EXCEPT ![c] = [ r EXCEPT !.pc = "retry", !.via = TRUE ] ]
         /\ UNCHANGED << state, servers, hist >>
    ELSE /\ state' = "stopping"
         /\ IF _server # 0
            THEN /\ servers' = [ servers EXCEPT ![_server] = Close(@) ]
                 /\ calls' = [ calls EXCEPT ![c] =
                       [ r EXCEPT !.pc = "shutdownHook", !.srv = _server ] ]
                 /\ hist' = [ hist EXCEPT !.close = @ + 1, !.shutdown = @ + 1 ]
            ELSE /\ calls' = [ calls EXCEPT ![c] = [ r EXCEPT !.pc = "shutdownHook" ] ]
                 /\ hist' = [ hist EXCEPT !.shutdown = @ + 1 ]
                 /\ UNCHANGED servers

\* The shutdown hook has completed.
ShutdownOk(c) ==
    /\ calls[c].pc = "shutdownHook"
    /\ calls' = [ calls EXCEPT ![c].pc = "awaitClose" ]
    /\ UNCHANGED << state, conf, global, servers, _server, fixed, pvars, hist >>

\* The shutdown hook has thrown or rejected.
ShutdownFail(c) ==
    /\ calls[c].pc = "shutdownHook"
    /\ calls' = [ calls EXCEPT ![c] = Rejected(calls[c]) ]
    /\ hist' = [ hist EXCEPT !.failed = TRUE ]
    /\ UNCHANGED << state, conf, global, servers, _server, fixed, pvars >>

\* Every connection of a closing listener has drained: its close callback fires.
CloseDone(i) ==
    /\ ~MicrotaskPending
    /\ i \in DOMAIN servers
    /\ servers[i] = "closing"
    /\ servers' = [ servers EXCEPT ![i] = "closed" ]
    /\ UNCHANGED << state, conf, global, _server, calls, fixed, pvars, hist >>

\* Faulty variant: stop() does not wait for the listener to close.
CloseSettled_NoWait(r) == TRUE

\* await closedPromise: undefined when this._server was unset (r.srv = 0),
\* else resolved by the close callback of the listener.
CloseSettled(r) == IF r.srv = 0 THEN TRUE ELSE servers[r.srv] # "closing"

\* Faulty variant: stop() keeps this.global.
Discard_Keep(g) == g

\* delete this.global
Discard(g) == [ defined |-> FALSE, keys |-> {} ]

\* stop() resumes after the hook and the close.
StopFinish(c) ==
    /\ calls[c].pc = "awaitClose"
    /\ CloseSettled(calls[c])
    /\ global' = Discard(global)
    /\ hist' = [ hist EXCEPT !.stoppedLog = @ + 1 ]
    /\ state' = "standby"
    /\ calls' = [ calls EXCEPT ![c] = Returned(calls[c], "standby") ]
    /\ UNCHANGED << conf, servers, _server, fixed, pvars >>

-----------------------------------------------------------------------------
(* State-based class: calls, retries, restart() *)

CanIssue(c) ==
    /\ calls[c].op = "none"
    /\ c > 1 => calls[c - 1].op # "none"

CallStart(c) ==
    /\ CanIssue(c)
    /\ StartBody(c, [ NoCall EXCEPT !.op = "start", !.fn = "start", !.at = state ])
    /\ UNCHANGED << conf, global, servers, _server, fixed, pvars, hist >>

CallStop(c) ==
    /\ CanIssue(c)
    /\ StopBody(c, [ NoCall EXCEPT !.op = "stop", !.fn = "stop", !.at = state ])
    /\ UNCHANGED << conf, global, _server, fixed, pvars >>

\* restart(conf) begins with stop().
CallRestart(c) ==
    /\ CanIssue(c)
    /\ \E a \in 0..Len(Layers) :
         StopBody(c, [ NoCall EXCEPT !.op = "restart", !.fn = "stop", !.arg = a,
                                     !.at = state,
                                     !.seen = << hist.startup, hist.shutdown >> ])
    /\ UNCHANGED << conf, global, _server, fixed, pvars >>

\* retryShortly: the timer fires and the function is called again.
RetryFire(c) ==
    /\ ~MicrotaskPending
    /\ calls[c].pc = "retry"
    /\ IF calls[c].fn = "start"
       THEN StartBody(c, calls[c]) /\ UNCHANGED << servers, hist >>
       ELSE StopBody(c, calls[c])
    /\ UNCHANGED << conf, global, _server, fixed, pvars >>

\* call(fn, ...args): the exposed keys that fn receives, spread from
\* this.global (none when this.global is undefined).
call == IF global.defined THEN global.keys ELSE {}

\* restart() resumes after stop(): reload the settings, then start().
RestartContinue(c) ==
    /\ calls[c].pc = "afterStop"
    /\ IF calls[c].arg # 0
       THEN /\ hist' = [ hist EXCEPT !.reloadLog = @ + 1 ]
            /\ conf' = Setup(conf, Layers[calls[c].arg])
       ELSE UNCHANGED << hist, conf >>
    /\ StartBody(c, [ calls[c] EXCEPT !.fn = "start", !.via = FALSE ])
    /\ UNCHANGED << global, servers, _server, fixed, pvars >>

-----------------------------------------------------------------------------
(* Specification of the state-based class *)

\* No filter is at work.
IdleFilter ==
    /\ types = [ list |-> << >> ]
    /\ handler = NoHandler
    /\ req = [ body |-> "", type |-> Undefined ]
    /\ res = NoRes

Init ==
    /\ state = "standby"
    /\ conf \in InitConfs
    /\ global = [ defined |-> FALSE, keys |-> {} ]
    /\ servers = << >>
    /\ _server = 0
    /\ calls = [ c \in Calls |-> NoCall ]
    /\ alwaysRebuildAPI \in BOOLEAN
    /\ hist = [ api |-> IF alwaysRebuildAPI THEN 0 ELSE 1, startup |-> 0,
                shutdown |-> 0, close |-> 0, stoppedLog |-> 0, reloadLog |-> 0,
                failed |-> FALSE ]
    /\ running = 0
    /\ stopped = 0
    /\ resolved = {}
    /\ IdleFilter
    /\ IdleLibrary
    /\ Constructed

Next ==
    \/ \E c \in Calls : CallStart(c)
    \/ \E c \in Calls : CallStop(c)
    \/ \E c \in Calls : CallRestart(c)
    \/ \E c \in Calls : RetryFire(c)
    \/ \E c \in Calls : DelayDone(c)
    \/ \E c \in Calls : StartupOk(c)
    \/ \E c \in Calls : StartupFail(c)
    \/ \E c \in Calls : StartFinish(c)
    \/ \E c \in Calls : ShutdownOk(c)
    \/ \E c \in Calls : ShutdownFail(c)
    \/ \E i \in 1..MaxCalls : CloseDone(i)
    \/ \E c \in Calls : StopFinish(c)
    \/ \E c \in Calls : RestartContinue(c)

Spec == Init /\ [][Next]_vars

\* The event loop runs every due timer and every settled await; the listener
\* reports ready and closed; a hook that was invoked settles, one way or the
\* other.  The application is free to issue no further call.
Fairness ==
    /\ \A c \in Calls :
         /\ WF_vars(RetryFire(c))
         /\ WF_vars(DelayDone(c))
         /\ WF_vars(StartupOk(c) \/ StartupFail(c))
         /\ WF_vars(StartFinish(c))
         /\ WF_vars(ShutdownOk(c) \/ ShutdownFail(c))
         /\ WF_vars(StopFinish(c))
         /\ WF_vars(RestartContinue(c))
    /\ \A i \in 1..MaxCalls :
         /\ WF_vars(CloseDone(i))

FairSpec == Spec /\ Fairness

-----------------------------------------------------------------------------
(* Promise-based class *)
(*                                                                         *)
(* this.running is false (0) or the promise made by start call c (c);      *)
(* this.stopped is false (0), the resolved promise of the constructor (-1) *)
(* or the promise made by stop call c (c).                                 *)

\* opts handed to the constructor of the promise-based class.
PInitConfs == { [port |-> 8765], [delay |-> 1500] }

\* Layers restart(conf) may be given (index 0: no argument).
PLayers == << [myKey |-> 3] >>

ConfDelay(c) == IF "delay" \in DOMAIN c THEN c["delay"] ELSE 0

ConfSsl(c) == IF "ssl" \in DOMAIN c THEN c["ssl"] ELSE 0

\* setup(layer): add the layer, default the port.
PSetup(c, layer) ==
    LET m == Merge(c, layer)
        p == IF ConfPort(m) # 0 THEN ConfPort(m)
             ELSE IF ConfSsl(m) # 0 THEN 443 ELSE 80
    IN  Merge(m, [port |-> p])

\* The promise-based server is running: a start() has completed and no stop()
\* has begun since.
PIsRunning == stopped = 0 /\ \E i \in DOMAIN servers : servers[i] = "listening"

PAt == IF PIsRunning THEN "running" ELSE "other"

\* if(this.running) return false;
PStartGuard(r) == r # 0

\* start(), up to `await this.stopped`.
PStartBody(c, r) ==
    IF PStartGuard(running)
    THEN calls' = [ calls EXCEPT ![c] = Returned(r, "false") ]
    ELSE calls' = [ calls EXCEPT ![c] = [ r EXCEPT !.pc = "awaitStopped", !.aw = stopped ] ]

\* The API rebuild and the startup hook of start().
PInvokeStartup(c) ==
    /\ hist' = [ hist EXCEPT
                   !.api = IF alwaysRebuildAPI THEN @ + 1 ELSE @,
                   !.startup = @ + 1 ]
    /\ calls' = [ calls EXCEPT ![c].pc = "startupHook", ![c].aw = 0 ]

\* start() resumes after `await this.stopped`: it makes the running promise.
PStartResume(c) ==
    /\ calls[c].pc = "awaitStopped"
    /\ StoppedSettled(calls[c].aw)
    /\ running' = c
    /\ IF ConfDelay(conf) > 0
       THEN /\ calls' = [ calls EXCEPT ![c].pc = "delay", ![c].aw = 0 ]
            /\ UNCHANGED hist
       ELSE PInvokeStartup(c)
    /\ UNCHANGED << svars, conf, servers, _server, fixed, stopped, resolved >>

PDelayDone(c) ==
    /\ ~MicrotaskPending
    /\ calls[c].pc = "delay"
    /\ PInvokeStartup(c)
    /\ UNCHANGED << svars, conf, servers, _server, fixed, pvars >>

\* The startup hook has completed: create the server and listen.
PStartupOk(c) ==
    /\ calls[c].pc = "startupHook"
    /\ servers' = Append(servers, Listen)
    /\ _server' = Len(servers) + 1
    /\ calls' = [ calls EXCEPT ![c].pc = "binding", ![c].srv = Len(servers) + 1 ]
    /\ UNCHANGED << svars, conf, fixed, hist, pvars >>

PStartupFail(c) ==
    /\ calls[c].pc = "startupHook"
    /\ calls' = [ calls EXCEPT ![c] = Rejected(calls[c]) ]
    /\ hist' = [ hist EXCEPT !.failed = TRUE ]
    /\ UNCHANGED << svars, conf, servers, _server, fixed, pvars >>

\* The listen callback fires and start() resumes: started(true);
\* this.stopped = false.
PStartFinish(c) ==
    /\ ~MicrotaskPending
    /\ calls[c].pc = "binding"
    /\ servers[calls[c].srv] # "failed"
    /\ servers' = [ servers EXCEPT ![calls[c].srv] = Ready(@) ]
    /\ resolved' = resolved \cup { << "running", c >> }
    /\ stopped' = 0
    /\ calls' = [ calls EXCEPT ![c] = Returned(calls[c], "this") ]
    /\ UNCHANGED << svars, conf, _server, fixed, hist, running >>

\* if(this.stopped) return false;
PStopGuard(s) == s # 0

\* stop(), up to `await this.running`.
PStopBody(c, r) ==
    IF PStopGuard(stopped)
    THEN calls' = [ calls EXCEPT ![c] = Returned(r, "false") ]
    ELSE calls' = [ calls EXCEPT ![c] = [ r EXCEPT !.pc = "awaitRunning", !.aw = running ] ]

\* stop() resumes after `await this.running`: it makes the stopped promise
\* and closes the server.
PStopResume(c) ==
    /\ calls[c].pc = "awaitRunning"
    /\ RunningSettled(calls[c].aw)
    /\ stopped' = c
    /\ IF _server = 0
       THEN /\ calls' = [ calls EXCEPT ![c] = Rejected(calls[c]) ]
            /\ UNCHANGED << servers, hist >>
       ELSE /\ servers' = [ servers EXCEPT ![_server] = Close(@) ]
            /\ hist' = [ hist EXCEPT !.close = @ + 1 ]
            /\ calls' = [ calls EXCEPT ![c].pc = "awaitClose", ![c].srv = _server,
                                       ![c].aw = 0 ]
    /\ UNCHANGED << svars, conf, _server, fixed, running, resolved >>

\* stop() resumes after the close: the shutdown hook is invoked.
PCloseResume(c) ==
    /\ calls[c].pc = "awaitClose"
    /\ CloseSettled(calls[c])
    /\ hist' = [ hist EXCEPT !.shutdown = @ + 1 ]
    /\ calls' = [ calls EXCEPT ![c].pc = "shutdownHook" ]
    /\ UNCHANGED << svars, conf, servers, _server, fixed, pvars >>

\* The shutdown hook has completed: finished(true); this.running = false.
PShutdownOk(c) ==
    /\ calls[c].pc = "shutdownHook"
    /\ hist' = [ hist EXCEPT !.stoppedLog = @ + 1 ]
    /\ resolved' = resolved \cup { << "stopped", c >> }
    /\ running' = 0
    /\ calls' = [ calls EXCEPT ![c] = Returned(calls[c], "undefined") ]
    /\ UNCHANGED << svars, conf, servers, _server, fixed, stopped >>

PShutdownFail(c) ==
    /\ calls[c].pc = "shutdownHook"
    /\ calls' = [ calls EXCEPT ![c] = Rejected(calls[c]) ]
    /\ hist' = [ hist EXCEPT !.failed = TRUE ]
    /\ UNCHANGED << svars, conf, servers, _server, fixed, pvars >>

PCallStart(c) ==
    /\ CanIssue(c)
    /\ PStartBody(c, [ NoCall EXCEPT !.op = "start", !.fn = "start", !.at = PAt ])
    /\ UNCHANGED << svars, conf, servers, _server, fixed, hist, pvars >>

PCallStop(c) ==
    /\ CanIssue(c)
    /\ PStopBody(c, [ NoCall EXCEPT !.op = "stop", !.fn = "stop", !.at = PAt ])
    /\ UNCHANGED << svars, conf, servers, _server, fixed, hist, pvars >>

PCallRestart(c) ==
    /\ CanIssue(c)
    /\ \E a \in 0..Len(PLayers) :
         PStopBody(c, [ NoCall EXCEPT !.op = "restart", !.fn = "stop", !.arg = a,
                                      !.at = PAt ])
    /\ UNCHANGED << svars, conf, servers, _server, fixed, hist, pvars >>

\* restart() resumes after stop(): reload the settings, then start().
PRestartContinue(c) ==
    /\ calls[c].pc = "afterStop"
    /\ IF calls[c].arg # 0
       THEN /\ hist' = [ hist EXCEPT !.reloadLog = @ + 1,
                           !.api = IF alwaysRebuildAPI THEN @ + 1 ELSE @ ]
            /\ conf' = PSetup(conf, PLayers[calls[c].arg])
       ELSE UNCHANGED << hist, conf >>
    /\ PStartBody(c, [ calls[c] EXCEPT !.fn = "start", !.aw = 0 ])
    /\ UNCHANGED << svars, servers, _server, fixed, pvars >>

InitP ==
    /\ state = "standby"
    /\ global = [ defined |-> FALSE, keys |-> {} ]
    /\ \E c \in PInitConfs : conf = PSetup(<< >>, c)
    /\ servers = << >>
    /\ _server = 0
    /\ calls = [ c \in PCalls |-> NoCall ]
    /\ alwaysRebuildAPI = FALSE
    /\ hist = [ api |-> 0, startup |-> 0, shutdown |-> 0, close |-> 0,
                stoppedLog |-> 0, reloadLog |-> 0, failed |-> FALSE ]
    /\ running = 0
    /\ stopped = -1
    /\ resolved = {}
    /\ IdleFilter
    /\ IdleLibrary
    /\ Constructed

NextP ==
    \/ \E c \in PCalls : PCallStart(c)
    \/ \E c \in PCalls : PCallStop(c)
    \/ \E c \in PCalls : PCallRestart(c)
    \/ \E c \in PCalls : PStartResume(c)
    \/ \E c \in PCalls : PDelayDone(c)
    \/ \E c \in PCalls : PStartupOk(c)
    \/ \E c \in PCalls : PStartupFail(c)
    \/ \E c \in PCalls : PStartFinish(c)
    \/ \E c \in PCalls : PStopResume(c)
    \/ \E i \in 1..MaxPCalls : CloseDone(i)
    \/ \E c \in PCalls : PCloseResume(c)
    \/ \E c \in PCalls : PShutdownOk(c)
    \/ \E c \in PCalls : PShutdownFail(c)
    \/ \E c \in PCalls : PRestartContinue(c)

SpecP == InitP /\ [][NextP]_vars

-----------------------------------------------------------------------------
(* Promise-based class: the configuration, layer by layer *)

\* Number of layers handed to setup(), the one of the constructor included.
MaxLayers == 3

\* Layers tried: with or without a port, with or without ssl material.
PSetupLayers == { << >>, [ port |-> 8765 ], [ ssl |-> 1 ], [ port |-> 8765, ssl |-> 1 ] }

\* new Nodecaf(conf): the constructor ends with setup(conf).
PConstructor ==
    /\ Len(layers) = 0
    /\ \E l \in PSetupLayers :
         /\ layers' = << l >>
         /\ conf' = PSetup(<< >>, l)
    /\ UNCHANGED << state, global, servers, _server, calls, alwaysRebuildAPI, hist,
                    running, stopped, resolved, avars, cvars, hvars, listenPort >>

\* setup(layer) on the instance, as restart(conf) calls it.
PSetupCall ==
    /\ Len(layers) \in 1..(MaxLayers - 1)
    /\ \E l \in PSetupLayers :
         /\ layers' = Append(layers, l)
         /\ conf' = PSetup(conf, l)
    /\ UNCHANGED << state, global, servers, _server, calls, alwaysRebuildAPI, hist,
                    running, stopped, resolved, avars, cvars, hvars, listenPort >>

\* start(): this._server.listen(this.conf.port, done)
PListen ==
    /\ Len(layers) >= 1
    /\ listenPort' = ConfPort(conf)
    /\ UNCHANGED << lvars, avars, cvars, hvars, layers >>

InitU ==
    /\ state = "standby"
    /\ conf = << >>
    /\ global = [ defined |-> FALSE, keys |-> {} ]
    /\ servers = << >>
    /\ _server = 0
    /\ calls = [ c \in Calls |-> NoCall ]
    /\ alwaysRebuildAPI = FALSE
    /\ hist = [ api |-> 0, startup |-> 0, shutdown |-> 0, close |-> 0,
                stoppedLog |-> 0, reloadLog |-> 0, failed |-> FALSE ]
    /\ running = 0
    /\ stopped = -1
    /\ resolved = {}
    /\ IdleFilter
    /\ IdleLibrary
    /\ Constructed

NextU ==
    \/ PConstructor
    \/ PSetupCall
    \/ PListen

SpecU == InitU /\ [][NextU]_vars

-----------------------------------------------------------------------------
(* Specification of the content-type filter *)

InitA ==
    /\ state = "standby"
    /\ conf = << >>
    /\ global = [ defined |-> FALSE, keys |-> {} ]
    /\ servers = << >>
    /\ _server = 0
    /\ calls = [ c \in Calls |-> NoCall ]
    /\ alwaysRebuildAPI = FALSE
    /\ hist = [ api |-> 1, startup |-> 0, shutdown |-> 0, close |-> 0,
                stoppedLog |-> 0, reloadLog |-> 0, failed |-> FALSE ]
    /\ running = 0
    /\ stopped = 0
    /\ resolved = {}
    /\ types \in TypeArgs
    /\ handler = NoHandler
    /\ req \in Requests
    /\ res = NoRes
    /\ IdleLibrary
    /\ Constructed

NextA ==
    \/ Accept
    \/ Filter

SpecA == InitA /\ [][NextA]_vars

-----------------------------------------------------------------------------
(* Specification of the constructor and of setup() *)

InitC ==
    /\ state = Undefined
    /\ conf = << >>
    /\ global = [ defined |-> FALSE, keys |-> {} ]
    /\ servers = << >>
    /\ _server = 0
    /\ calls = [ c \in Calls |-> NoCall ]
    /\ alwaysRebuildAPI = FALSE
    /\ hist = [ api |-> 0, startup |-> 0, shutdown |-> 0, close |-> 0,
                stoppedLog |-> 0, reloadLog |-> 0, failed |-> FALSE ]
    /\ running = 0
    /\ stopped = 0
    /\ resolved = {}
    /\ IdleFilter
    /\ IdleLibrary
    /\ opts \in OptsArgs
    /\ thrown = "none"
    /\ objectOrPath = [ undefined |-> TRUE ]
    /\ layers = << >>
    /\ listenPort = 0

NextC ==
    \/ Constructor
    \/ SetupCall

SpecC == InitC /\ [][NextC]_vars

-----------------------------------------------------------------------------
(* Router: route chains, request contexts, REST errors                      *)
(*                                                                         *)
(* A request is dispatched to a route, gated by the content-type whitelist  *)
(* in force for that route, and handed to the handlers of the route's       *)
(* chain in registration order.  A handler continues the chain, ends the    *)
(* response, or fails: by throwing, by rejecting, or through the error      *)
(* function of its arguments.                                              *)

\* Handlers in the chain of a route.
MaxChain == 3

\* The routes registered; a request may also match none of them.
Routes == 1..2
NoRoute == 0

\* The kinds of REST error.
Kinds == { "NotFound", "Unauthorized", "ServerFault", "InvalidActionForState",
           "InvalidCredentials", "InvalidContent" }

\* A table that answers 500 for the kinds of client error too.
StatusOf_Fault(k) == 500

\* The status of each kind.
StatusOf(k) ==
    CASE k = "NotFound"              -> 404
      [] k = "Unauthorized"          -> 401
      [] k = "ServerFault"           -> 500
      [] k = "InvalidActionForState" -> 405
      [] k = "InvalidCredentials"    -> 400
      [] k = "InvalidContent"        -> 400

\* What a handler throws, rejects with, or hands to error(): a string, the
\* name of a kind or not, or an Error, with a declared kind or not.  `text` is
\* the string itself or the message of the Error.
KindName(k) == [ form |-> "string", kind |-> k, text |-> k ]
OtherString == [ form |-> "string", kind |-> "none", text |-> "resterr" ]
PlainError  == [ form |-> "Error", kind |-> "none", text |-> "errfoobar" ]
RestError(k) == [ form |-> "Error", kind |-> k, text |-> "foo" ]

\* The messages handed to error() after its first argument.
Messages == { Undefined, "message" }

\* Whether the value is of a recognized kind.
Recognized(e) == e.kind \in Kinds

\* A pipeline that leaves the status alone for what it does not recognize.
Status_Untouched(e) == IF Recognized(e) THEN StatusOf(e.kind) ELSE 200

\* The status of the response to a failure.
Status(e) == IF Recognized(e) THEN StatusOf(e.kind) ELSE 500

\* The body of the response to a failure: the message given, or else the
\* string itself or the message of the Error.
Body(e, m) == IF m # Undefined THEN m ELSE e.text

\* A response not yet begun, and a response sent.
NoResponse == [ status |-> 0, body |-> "", ended |-> FALSE ]
Sent(status, body) == [ status |-> status, body |-> body, ended |-> TRUE ]

\* Sending on a response: one that has ended stays as it was sent.
Send(r, status, body) == IF r.ended THEN r ELSE Sent(status, body)

\* No failure has happened in the chain.
NoFailure ==
    [ how |-> "none", e |-> OtherString, message |-> Undefined, at |-> 0,
      sent |-> FALSE ]

\* The flash map of a request: unset, or the mark of the handler that set it.
NoFlash == [ by |-> 0, at |-> 0 ]

\* The context of a request not yet dispatched.
NoContext ==
    [ pc |-> "idle", route |-> NoRoute, req |-> [ body |-> "", type |-> Undefined ],
      pos |-> 0, ran |-> {}, flash |-> NoFlash,
      seen |-> [ i \in 1..MaxChain |-> NoFlash ],
      wrote |-> {}, res |-> NoResponse, failure |-> NoFailure,
      intercepted |-> 0 ]

\* The whitelists tried: none, or one list of mime-types.
Whitelists == { [ undefined |-> TRUE ], [ list |-> << "application/json" >> ],
                [ list |-> << "text/html" >> ] }

\* A gate that knows the API-wide whitelist only.
Whitelist_APIWide(route) == router.accepts

\* The whitelist in force for a route: its own when it has one, the API-wide
\* one otherwise.
Whitelist(route) ==
    IF router.routes[route] # [ undefined |-> TRUE ]
    THEN router.routes[route]
    ELSE router.accepts

\* Whether the whitelist admits the request.
Admits(w, rq) ==
    IF w = [ undefined |-> TRUE ] THEN TRUE
    ELSE EmptyBody(rq.body) \/ Includes(w.list, rq.type)

\* A map shared by all the requests.
Flash_Shared(r) == ctx[1].flash

\* The flash map the handlers of request r are handed.
Flash(r) == ctx[r].flash

\* dispatch(request): the route matched, if any, and the gate.
Dispatch(r) ==
    /\ ctx[r].pc = "idle"
    /\ \E route \in Routes \cup { NoRoute }, rq \in router.requests :
         ctx' = [ ctx EXCEPT ![r] =
                    IF route = NoRoute
                    THEN [ @ EXCEPT !.pc = "done", !.req = rq,
                                    !.res = Sent(404, "") ]
                    ELSE IF ~Admits(Whitelist(route), rq)
                    THEN [ @ EXCEPT !.pc = "done", !.route = route, !.req = rq,
                                    !.res = Sent(400, "Unsupported") ]
                    ELSE [ @ EXCEPT !.pc = "chain", !.route = route, !.req = rq,
                                    !.pos = 1 ] ]
    /\ UNCHANGED << lvars, avars, cvars, uvars, router, adapter, ws, invoked >>

\* The error pipeline: the interceptor first, which may send a response of its
\* own, then the response by default.
Fail(c, how, e, m, r0) ==
    LET r1 == IF router.onRouteError = "override"
              THEN Send(r0, StatusOf("Unauthorized"), "resterr")
              ELSE r0
    IN  [ c EXCEPT !.pc = "done",
                   !.failure = [ how |-> how, e |-> e, message |-> m, at |-> c.pos,
                                 sent |-> r0.ended ],
                   !.intercepted = @ + 1,
                   !.res = Send(r1, Status(e), Body(e, m)) ]

\* The handler at the current position is run with the context of the request.
Run(c, r) ==
    [ c EXCEPT !.ran = @ \cup { c.pos }, !.seen[c.pos] = Flash(r) ]

\* The handler calls next(), after setting a flash value or not.
HandlerNext(r) ==
    /\ ctx[r].pc = "chain"
    /\ \E set \in BOOLEAN :
         LET c == Run(ctx[r], r)
             f == IF set THEN [ by |-> r, at |-> c.pos ] ELSE c.flash
         IN  ctx' = [ ctx EXCEPT ![r] =
                        [ c EXCEPT !.flash = f,
                                   !.wrote = IF set THEN @ \cup { c.pos } ELSE @,
                                   !.pc = IF c.pos = MaxChain THEN "hung" ELSE "chain",
                                   !.pos = IF c.pos = MaxChain THEN @ ELSE @ + 1 ] ]
    /\ UNCHANGED << lvars, avars, cvars, uvars, router, adapter, ws, invoked >>

\* The handler ends the response.
HandlerEnd(r) ==
    /\ ctx[r].pc = "chain"
    /\ ctx' = [ ctx EXCEPT ![r] =
                  [ Run(@, r) EXCEPT !.pc = "done", !.res = Sent(200, "") ] ]
    /\ UNCHANGED << lvars, avars, cvars, uvars, router, adapter, ws, invoked >>

\* The handler throws, having ended the response first or not.
HandlerThrow(r) ==
    /\ ctx[r].pc = "chain"
    /\ \E e \in router.raises, ended \in BOOLEAN :
         LET c == Run(ctx[r], r)
         IN  ctx' = [ ctx EXCEPT ![r] =
                        Fail(c, "throw", e, Undefined,
                             IF ended THEN Sent(200, "") ELSE c.res) ]
    /\ UNCHANGED << lvars, avars, cvars, uvars, router, adapter, ws, invoked >>

\* The handler calls error() before it returns.
HandlerError(r) ==
    /\ ctx[r].pc = "chain"
    /\ \E e \in router.signals, m \in Messages :
         LET c == Run(ctx[r], r)
         IN  ctx' = [ ctx EXCEPT ![r] = Fail(c, "error", e, m, c.res) ]
    /\ UNCHANGED << lvars, avars, cvars, uvars, router, adapter, ws, invoked >>

\* The handler returns with work pending: a promise that will reject, or a
\* callback that will call error().
HandlerDefer(r) ==
    /\ ctx[r].pc = "chain"
    /\ \E how \in { "reject", "error" } :
         ctx' = [ ctx EXCEPT ![r] =
                    [ Run(@, r) EXCEPT !.pc = "pending", !.failure.how = how ] ]
    /\ UNCHANGED << lvars, avars, cvars, uvars, router, adapter, ws, invoked >>

\* The promise rejects, or the callback calls error().
HandlerSettle(r) ==
    /\ ctx[r].pc = "pending"
    /\ LET c == ctx[r]
       IN  IF c.failure.how = "reject"
           THEN \E e \in router.raises :
                  ctx' = [ ctx EXCEPT ![r] = Fail(c, "reject", e, Undefined, c.res) ]
           ELSE \E e \in router.signals, m \in Messages :
                  ctx' = [ ctx EXCEPT ![r] = Fail(c, "error", e, m, c.res) ]
    /\ UNCHANGED << lvars, avars, cvars, uvars, router, adapter, ws, invoked >>

\* The lifecycle is not at work.
IdleServer ==
    /\ state = "standby"
    /\ conf = << >>
    /\ global = [ defined |-> FALSE, keys |-> {} ]
    /\ servers = << >>
    /\ _server = 0
    /\ calls = [ c \in Calls |-> NoCall ]
    /\ alwaysRebuildAPI = FALSE
    /\ hist = [ api |-> 1, startup |-> 0, shutdown |-> 0, close |-> 0,
                stoppedLog |-> 0, reloadLog |-> 0, failed |-> FALSE ]
    /\ running = 0
    /\ stopped = 0
    /\ resolved = {}

\* The values the handlers of the API throw or reject with, and those they
\* hand to error().
Raised == { PlainError, OtherString, KindName("NotFound"), RestError("InvalidContent") }
Signals == { KindName(k) : k \in Kinds } \cup { PlainError, OtherString }

\* One request, to an API of two routes: the first with a whitelist of its
\* own or none, the second with none.
InitR ==
    /\ IdleServer
    /\ IdleFilter
    /\ Constructed
    /\ IdleAdapter
    /\ IdleSockets
    /\ IdleCall
    /\ router \in [ accepts : Whitelists,
                    routes : { rs \in [ Routes -> Whitelists ] :
                                 rs[2] = [ undefined |-> TRUE ] },
                    onRouteError : { "noop", "observe", "override" },
                    raises : { Raised }, signals : { Signals },
                    requests : { Requests } ]
    /\ ctx = [ r \in 1..1 |-> NoContext ]

NextR ==
    \/ \E r \in DOMAIN ctx : Dispatch(r)
    \/ \E r \in DOMAIN ctx : HandlerNext(r)
    \/ \E r \in DOMAIN ctx : HandlerEnd(r)
    \/ \E r \in DOMAIN ctx : HandlerThrow(r)
    \/ \E r \in DOMAIN ctx : HandlerError(r)
    \/ \E r \in DOMAIN ctx : HandlerDefer(r)
    \/ \E r \in DOMAIN ctx : HandlerSettle(r)

SpecR == InitR /\ [][NextR]_vars

\* Requests in flight at once.
MaxRequests == 2

\* Several requests without body at once, to an API without whitelist or
\* interceptor whose handlers fail with a plain Error.
InitF ==
    /\ IdleServer
    /\ IdleFilter
    /\ Constructed
    /\ IdleAdapter
    /\ IdleSockets
    /\ IdleCall
    /\ router = [ accepts |-> [ undefined |-> TRUE ],
                  routes |-> [ i \in Routes |-> [ undefined |-> TRUE ] ],
                  onRouteError |-> "noop",
                  raises |-> { PlainError }, signals |-> { PlainError },
                  requests |-> { [ body |-> "", type |-> Undefined ] } ]
    /\ ctx = [ r \in 1..MaxRequests |-> NoContext ]

SpecF == InitF /\ [][NextR]_vars

-----------------------------------------------------------------------------
(* Handler-chain adapter: adapt(func)                                       *)
(*                                                                         *)
(* adapt(func) returns a function of (continuation, ...args) that calls     *)
(* func(...args) and reports its end to the continuation.                   *)

\* The values a function returns, resolves with, throws or rejects with.
Values == { "foobar", "Error: foobar", "resterr", "bar" }

\* The arguments handed on to the function.
ArgLists == { << >>, << "bar" >>, << "bar", "baz" >> }

\* The functions adapted: returning, throwing, or returning a promise that
\* resolves or rejects.
Funcs == [ does : { "return", "throw", "resolve", "reject" }, value : Values ]

\* The continuation is called: with an error, or with no argument.
WithError(v) == [ err |-> v ]
WithNoError == [ none |-> TRUE ]

\* An adapter that leaves the end of the promise to its caller.
Continue_SyncOnly(f) == IF f.does = "throw" THEN << WithError(f.value) >> ELSE << >>

\* What the continuation is called with once the function has ended.
Continue(f) ==
    IF f.does \in { "throw", "reject" }
    THEN << WithError(f.value) >>
    ELSE << WithNoError >>

\* af(continuation, ...args): the function is called with the arguments; it
\* returns, throws, or returns a promise.
Adapted ==
    /\ adapter.pc = "idle"
    /\ adapter' = [ adapter EXCEPT
                      !.received = adapter.args,
                      !.pc = IF adapter.func.does \in { "return", "throw" }
                             THEN "done" ELSE "pending",
                      !.continuation =
                          IF adapter.func.does \in { "return", "throw" }
                          THEN @ \o Continue(adapter.func) ELSE @ ]
    /\ UNCHANGED << lvars, avars, cvars, uvars, rvars, ws, invoked >>

\* The promise the function returned resolves or rejects.
Settle ==
    /\ adapter.pc = "pending"
    /\ adapter' = [ adapter EXCEPT !.pc = "done",
                                   !.continuation = @ \o Continue(adapter.func) ]
    /\ UNCHANGED << lvars, avars, cvars, uvars, rvars, ws, invoked >>

InitD ==
    /\ IdleServer
    /\ IdleFilter
    /\ IdleRouter
    /\ IdleSockets
    /\ IdleCall
    /\ Constructed
    /\ adapter \in [ pc : { "idle" }, func : Funcs, args : ArgLists,
                     received : { << >> }, continuation : { << >> } ]

NextD ==
    \/ Adapted
    \/ Settle

SpecD == InitD /\ [][NextD]_vars

-----------------------------------------------------------------------------
(* WebSocket endpoints: ws(path, { connect, message, close })               *)
(*                                                                         *)
(* The events of one connection are handled one after the other: a message  *)
(* callback, asynchronous or not, has finished before the next event of the *)
(* connection is handled.  Connections are independent of each other.       *)

\* Connections, and frames a client sends on one connection.
MaxConns == 2
MaxFrames == 2
Conns == 1..MaxConns

\* The paths clients ask for: '/foo' is registered, '/foobar' is not.
Registered == { "/foo" }
Paths == { "/foo", "/foobar" }

\* A connection not yet asked for.
NoConn ==
    [ pc |-> "none", path |-> "", arrived |-> 0, inbox |-> << >>,
      delivered |-> << >>, finished |-> << >>, ended |-> FALSE,
      connects |-> 0, closes |-> 0 ]

\* The elements of a sequence.
Range(q) == { q[i] : i \in DOMAIN q }

\* The messages whose callback has started and not finished.
InFlight(c) == Range(c.delivered) \ Range(c.finished)

\* No callback of the connection is running.
Free(c) == InFlight(c) = {}

\* A connection that reports its end at once.
Drained_NoWait(c) == TRUE

\* Every frame received has been handled to its end.
Drained(c) == InFlight(c) = {} /\ c.inbox = << >>

\* The upgrade request: refused on a path that is not registered, else the
\* connect callback is called.
Upgrade(k) ==
    /\ ws[k].pc = "none"
    /\ \E path \in Paths :
         ws' = [ ws EXCEPT ![k] =
                   IF path \in Registered
                   THEN [ @ EXCEPT !.pc = "open", !.path = path, !.connects = @ + 1 ]
                   ELSE [ @ EXCEPT !.pc = "refused", !.path = path ] ]
    /\ UNCHANGED << lvars, avars, cvars, uvars, rvars, adapter, invoked >>

\* A frame arrives on the connection.
Frame(k) ==
    /\ ws[k].pc = "open"
    /\ ~ws[k].ended
    /\ ws[k].arrived < MaxFrames
    /\ ws' = [ ws EXCEPT ![k].arrived = @ + 1, ![k].inbox = Append(@, ws[k].arrived + 1) ]
    /\ UNCHANGED << lvars, avars, cvars, uvars, rvars, adapter, invoked >>

\* The message callback is called with the oldest frame waiting.
MessageStart(k) ==
    /\ ws[k].pc = "open"
    /\ ws[k].inbox # << >>
    /\ Free(ws[k])
    /\ ws' = [ ws EXCEPT ![k].delivered = Append(@, Head(ws[k].inbox)),
                         ![k].inbox = Tail(@) ]
    /\ UNCHANGED << lvars, avars, cvars, uvars, rvars, adapter, invoked >>

\* A message callback returns, or the promise it returned settles.
MessageFinish(k) ==
    /\ \E m \in InFlight(ws[k]) :
         ws' = [ ws EXCEPT ![k].finished = Append(@, m) ]
    /\ UNCHANGED << lvars, avars, cvars, uvars, rvars, adapter, invoked >>

\* The connection ends: the client hangs up, or the server stops.
End(k) ==
    /\ ws[k].pc = "open"
    /\ ~ws[k].ended
    /\ ws' = [ ws EXCEPT ![k].ended = TRUE ]
    /\ UNCHANGED << lvars, avars, cvars, uvars, rvars, adapter, invoked >>

\* The close callback is called.
CloseFire(k) ==
    /\ ws[k].pc = "open"
    /\ ws[k].ended
    /\ Drained(ws[k])
    /\ ws' = [ ws EXCEPT ![k].pc = "closed", ![k].closes = @ + 1 ]
    /\ UNCHANGED << lvars, avars, cvars, uvars, rvars, adapter, invoked >>

InitW ==
    /\ IdleServer
    /\ IdleFilter
    /\ IdleRouter
    /\ IdleAdapter
    /\ IdleCall
    /\ Constructed
    /\ ws = [ k \in Conns |-> NoConn ]

NextW ==
    \/ \E k \in Conns : Upgrade(k)
    \/ \E k \in Conns : Frame(k)
    \/ \E k \in Conns : MessageStart(k)
    \/ \E k \in Conns : MessageFinish(k)
    \/ \E k \in Conns : End(k)
    \/ \E k \in Conns : CloseFire(k)

SpecW == InitW /\ [][NextW]_vars

\* The callbacks and the promises they return come to an end, and the events
\* waiting on a connection are handled.
FairnessW ==
    \A k \in Conns :
        /\ WF_vars(MessageStart(k))
        /\ WF_vars(MessageFinish(k))
        /\ WF_vars(CloseFire(k))

FairSpecW == SpecW /\ FairnessW

-----------------------------------------------------------------------------
(* State-based class: call(fn, ...args)                                     *)

\* Invocations of call() followed.
MaxInvocations == 2

\* The keys a startup hook may have exposed, 'conf' and 'log' among them.
ExposedKeys == { "db", "conf", "log" }

\* Faulty variant: the globals are spread last and override conf and log.
Bundle_GlobalsLast ==
    [ k \in call \cup { "conf", "log" } |->
        IF k \in call THEN [ global |-> k ]
        ELSE IF k = "conf" THEN [ conf |-> conf ] ELSE [ log |-> TRUE ] ]

\* { ...this.global, conf: this.conf, log: this.log }: each key holds the
\* value of the global of that name, this.conf, or this.log.
Bundle ==
    [ k \in call \cup { "conf", "log" } |->
        IF k = "conf" THEN [ conf |-> conf ]
        ELSE IF k = "log" THEN [ log |-> TRUE ]
        ELSE [ global |-> k ] ]

\* call(fn, ...args): fn(bundle, ...args)
CallFn ==
    /\ Len(invoked) < MaxInvocations
    /\ \E args \in ArgLists :
         invoked' = Append(invoked, [ bundle |-> Bundle, args |-> args ])
    /\ UNCHANGED << lvars, avars, cvars, uvars, rvars, adapter, ws >>

\* setup(layer) between two calls: this.conf is replaced.
Reconfigure ==
    /\ \E i \in DOMAIN Layers : conf' = Setup(conf, Layers[i])
    /\ conf' # conf
    /\ UNCHANGED << state, global, servers, _server, calls, alwaysRebuildAPI,
                    hist, running, stopped, resolved, avars, cvars, uvars, hvars >>

\* The server in standby, this.global undefined, or running, with the keys
\* its startup hook exposed.
InitG ==
    /\ conf \in InitConfs
    /\ \/ state = "standby" /\ global = [ defined |-> FALSE, keys |-> {} ]
       \/ state = "running" /\ global \in [ defined : { TRUE }, keys : SUBSET ExposedKeys ]
    /\ servers = << >>
    /\ _server = 0
    /\ calls = [ c \in Calls |-> NoCall ]
    /\ alwaysRebuildAPI = FALSE
    /\ hist = [ api |-> 1, startup |-> 0, shutdown |-> 0, close |-> 0,
                stoppedLog |-> 0, reloadLog |-> 0, failed |-> FALSE ]
    /\ running = 0
    /\ stopped = 0
    /\ resolved = {}
    /\ IdleFilter
    /\ IdleLibrary
    /\ Constructed

NextG ==
    \/ CallFn
    \/ Reconfigure

SpecG == InitG /\ [][NextG]_vars

-----------------------------------------------------------------------------
(* Properties *)

Issued(c, o) == calls[c].op = "none" /\ calls'[c].op = o

OnlyStarts == \A c \in DOMAIN calls : calls[c].op \in { "none", "start" }

\* A user hook has thrown or rejected.
HookFailed == \E c \in DOMAIN calls : calls[c].pc \in { "rejected", "lost" }

\* Past the state guard of start() or stop(), and not yet returned.
Working(r) == r.pc \in { "delay", "startupHook", "binding", "shutdownHook", "awaitClose" }

\* C1: state-based class.  However many start() calls are issued on a standby
\* server without awaiting one another, the startup hook runs at most once and
\* at most one listener is created; once the server runs the hook has run
\* exactly once and, with a port configured, exactly one listener was bound;
\* every call after the first has resolved at once, with the current state.
C1_ConcurrentStartsBindOnce ==
    OnlyStarts =>
        /\ hist.startup <= 1
        /\ Len(servers) <= 1
        /\ state = "running" =>
             /\ hist.startup = 1
             /\ ConfPort(conf) # 0 => Len(servers) = 1 /\ servers[1] = "listening"
        /\ \A c \in Calls :
             c > 1 /\ calls[c].op = "start" =>
                 calls[c].pc = "done" /\ calls[c].res \in { "starting", "running" }

C1_Witness ==
    /\ OnlyStarts
    /\ state = "running"
    /\ ConfPort(conf) # 0
    /\ calls[2].op = "start" /\ calls[2].at = "starting" /\ calls[2].res = "starting"
    /\ calls[3].op = "start" /\ calls[3].at = "starting" /\ calls[3].res = "starting"

\* C2: promise-based class.  When only start() calls are issued on a stopped
\* server, at most one server is created (and listen() called once) and the
\* startup hook runs at most once.
C2_PromiseStartsBindOnce ==
    OnlyStarts => Len(servers) <= 1 /\ hist.startup <= 1

\* C3: state-based class.  At most one listener is bound; none is bound while
\* state is 'standby'; while state is 'running' with a port configured, the
\* listener of this._server, and no other, is bound and listening.
C3_OneListener ==
    /\ Cardinality(BoundServers) <= 1
    /\ state = "standby" => BoundServers = {}
    /\ state = "running" /\ ConfPort(conf) # 0 =>
         /\ BoundServers = { _server }
         /\ servers[_server] = "listening"

\* A second running cycle: the listener of the first cycle is closed and the
\* listener of the second is the one bound.
C3_Witness ==
    /\ state = "running"
    /\ ConfPort(conf) # 0
    /\ Len(servers) = 2
    /\ servers[1] = "closed"

Transitions ==
    { << "standby", "starting" >>, << "starting", "running" >>,
      << "running", "stopping" >>, << "stopping", "standby" >> }

\* C4: state-based class.  state starts as 'standby' and every change of it is
\* one of standby -> starting -> running -> stopping -> standby.
C4_StateCycle ==
    /\ state = "standby"
    /\ [][ state' # state => << state, state' >> \in Transitions ]_vars

\* A whole cycle has been walked and a second one has begun.
C4_Witness == state = "starting" /\ hist.stoppedLog = 1

\* C5: state-based class.  At most one call is past its state guard, a call
\* past the guard of start() works in 'starting' and a call past the guard of
\* stop() works in 'stopping'; so the start phase and the stop phase never
\* overlap, and a call that found the opposite transition in progress does no
\* work before that transition has finished.
C5_NoOverlap ==
    /\ Cardinality({ c \in Calls : Working(calls[c]) }) <= 1
    /\ \A c \in Calls :
         Working(calls[c]) =>
             state = (IF calls[c].fn = "start" THEN "starting" ELSE "stopping")

\* A stop() polls while a start() is at work, and the other way round.
C5_Witness ==
    \E c, d \in Calls :
        /\ Working(calls[c]) /\ calls[c].fn = "stop"
        /\ calls[d].pc = "retry" /\ calls[d].fn = "start"

C7_PromiseStartOnRunning ==
    [][ \A c \in PCalls :
          Issued(c, "start") /\ PIsRunning =>
              /\ calls'[c].pc = "done"
              /\ calls'[c].res = "false"
              /\ UNCHANGED << conf, servers, _server, hist, pvars >>
      ]_vars

\* C8: state-based class.  stop() on a server in 'standby' (after a completed
\* stop, or never started) does not fail, resolves to 'standby' and changes
\* nothing: no shutdown hook, no listener closed, no 'Stopped' record, same
\* state.
C8_StopIsIdempotent ==
    [][ \A c \in Calls :
          Issued(c, "stop") /\ state = "standby" =>
              /\ calls'[c].pc = "done"
              /\ calls'[c].res = "standby"
              /\ UNCHANGED << state, conf, global, servers, _server, hist >>
      ]_vars

\* A stop() that did the work, then a second stop().
C8_Witness ==
    /\ calls[1].op = "start"
    /\ calls[2].op = "stop" /\ calls[2].at = "running" /\ calls[2].res = "standby"
    /\ calls[3].op = "stop" /\ calls[3].at = "standby" /\ calls[3].res = "standby"
    /\ hist.stoppedLog = 1 /\ hist.shutdown = 1
    /\ state = "standby"

\* A stop() call polls, for its own account, while the server is starting.
StopWaits(c) == calls[c].op = "stop" /\ calls[c].pc = "retry"

\* stop() issued while 'starting' does no stop work, and a polling stop()
\* leaves the poll only when the start is over.
C9_StopDefers ==
    [][ \A c \in Calls :
          /\ Issued(c, "stop") /\ state = "starting" =>
                /\ calls'[c].pc = "retry"
                /\ UNCHANGED << state, global, servers, hist >>
          /\ StopWaits(c) /\ calls'[c].pc # "retry" => state # "starting"
      ]_vars

StartWaits(c) == calls[c].op = "start" /\ calls[c].pc = "retry"

\* start() issued while 'stopping' does no start work, and a polling start()
\* leaves the poll only when the stop is over.
C10_StartDefers ==
    [][ \A c \in Calls :
          /\ Issued(c, "start") /\ state = "stopping" =>
                /\ calls'[c].pc = "retry"
                /\ UNCHANGED << state, global, servers, hist >>
          /\ StartWaits(c) /\ calls'[c].pc # "retry" => state # "stopping"
          /\ StartWaits(c) /\ state = "standby" /\ calls'[c].pc # "retry" =>
                calls'[c].pc = "delay" /\ state' = "starting"
      ]_vars

StartResolves(c) ==
    /\ calls'[c].op = "start"
    /\ calls[c].pc # "done"
    /\ calls'[c].pc = "done"

\* C11: state-based class.  Of overlapping start() calls only one takes the
\* server past 'starting' and the other waits: a start() call never resolves
\* while state is still 'starting'; whenever a start() call resolves, the
\* server has reached 'running'.
C11_LosingStartWaits ==
    [][ \A c \in Calls : StartResolves(c) => state' = "running" ]_vars

\* The steps of one start, each seen as a change of the state.
BecomesStarting == state # "starting" /\ state' = "starting"

HookInvoked == hist'.startup # hist.startup

ListenerCreated == Len(servers') # Len(servers)

BecomesRunning == state # "running" /\ state' = "running"

\* C12: state-based class.  Within one start: state becomes 'starting', the
\* delay elapses, the startup hook is invoked and awaited, the listener is
\* bound, state becomes 'running'.  No listener is bound during the delay or
\* while the hook runs, and state is never 'running' with a port configured
\* unless the listener is ready.
C12_StartOrder ==
    /\ [](\A c \in Calls :
            calls[c].pc \in { "delay", "startupHook" } =>
                state = "starting" /\ BoundServers = {})
    /\ [](state = "running" /\ ConfPort(conf) # 0 =>
            _server # 0 /\ servers[_server] = "listening")
    /\ [][ /\ BecomesStarting =>
                \E c \in Calls : calls[c].pc # "delay" /\ calls'[c].pc = "delay"
           /\ HookInvoked =>
                /\ hist'.startup = hist.startup + 1
                /\ state = "starting" /\ state' = "starting"
                /\ \E c \in Calls :
                     calls[c].pc = "delay" /\ calls'[c].pc = "startupHook"
           /\ ListenerCreated =>
                /\ Len(servers') = Len(servers) + 1
                /\ state = "starting" /\ state' = "starting"
                /\ \E c \in Calls :
                     calls[c].pc = "startupHook" /\ calls'[c].pc = "binding"
           /\ BecomesRunning =>
                /\ state = "starting"
                /\ \E c \in Calls :
                     IF ConfPort(conf) # 0
                     THEN /\ calls[c].pc = "binding"
                          /\ servers'[calls[c].srv] = "listening"
                     ELSE calls[c].pc = "startupHook"
         ]_vars

\* A start with a port configured has gone through every step.
C12_Witness ==
    /\ state = "running"
    /\ ConfPort(conf) # 0
    /\ hist.startup = 1
    /\ Len(servers) = 1 /\ servers[1] = "listening"
    /\ calls[1].op = "start" /\ calls[1].res = "running"

\* The steps of one stop, each seen as a change of the state.
BecomesStopping == state # "stopping" /\ state' = "stopping"

ShutdownInvoked == hist'.shutdown # hist.shutdown

GlobalsDiscarded == global.defined /\ ~global'.defined

BecomesStandby == state # "standby" /\ state' = "standby"

\* C13: state-based class.  Within one stop: the close of the listener is
\* initiated before the shutdown hook is invoked, the hook is invoked without
\* waiting for the close (in the step that makes state 'stopping'), and the
\* globals are discarded and state becomes 'standby' only once the hook has
\* completed and the listener has closed.
C13_StopOrder ==
    [][ /\ ShutdownInvoked =>
             /\ hist'.shutdown = hist.shutdown + 1
             /\ state = "running" /\ state' = "stopping"
             /\ _server # 0 => servers'[_server] # "listening"
        /\ BecomesStopping => ShutdownInvoked
        /\ BecomesStandby =>
             /\ state = "stopping"
             /\ ~global'.defined
             /\ \E c \in Calls :
                  /\ calls[c].fn = "stop"
                  /\ calls[c].pc = "awaitClose"
                  /\ calls[c].srv = _server
             /\ _server # 0 => servers[_server] \notin { "listening", "closing" }
        /\ GlobalsDiscarded => BecomesStandby
      ]_vars

\* The shutdown hook has completed while the listener is still draining.
C13_Witness ==
    /\ state = "stopping"
    /\ global.defined
    /\ \E c \in Calls :
         /\ calls[c].pc = "awaitClose"
         /\ calls[c].srv # 0
         /\ servers[calls[c].srv] = "closing"

\* No port is configured.
Headless == IF "port" \in DOMAIN conf THEN conf["port"] = 0 ELSE TRUE

RestartResolves(c) ==
    /\ calls[c].op = "restart"
    /\ calls[c].at = "running"
    /\ calls[c].arg # 0
    /\ calls[c].pc # "done"
    /\ calls'[c].pc = "done"

\* The configuration c holds every key of the layer, with the layer's value.
HasLayer(c, layer) ==
    \A k \in DOMAIN layer : k \in DOMAIN c /\ c[k] = layer[k]

\* C15: state-based class.  restart(conf) on a running server invokes the
\* shutdown hook first; when the call resolves, conf holds the keys given, the
\* server is running, and since the call was made the shutdown hook and the
\* startup hook have each run exactly once.
C15_RestartReloads ==
    [][ \A c \in Calls :
          /\ Issued(c, "restart") /\ state = "running" =>
                /\ hist'.shutdown = hist.shutdown + 1
                /\ hist'.startup = hist.startup
          /\ RestartResolves(c) =>
                /\ state' = "running"
                /\ HasLayer(conf', Layers[calls[c].arg])
                /\ hist'.startup = calls[c].seen[1] + 1
                /\ hist'.shutdown = calls[c].seen[2] + 1
      ]_vars

\* restart(conf) installs its configuration in this step.
ConfInstalled == hist'.reloadLog # hist.reloadLog

\* C16: state-based class.  restart(conf) installs the new configuration only
\* after the stop has fully completed (state 'standby', listener closed) and
\* before the next start begins: in no interleaving is conf replaced while
\* state is 'stopping', 'running' or 'starting'.
C16_ConfInstalledInStandby ==
    [][ /\ ConfInstalled => state = "standby" /\ BoundServers = {}
        /\ conf' # conf => ConfInstalled
      ]_vars

\* restart() of call c goes on after its stop(), in this step.
RestartGoesOn(c) == calls[c].pc = "afterStop" /\ calls'[c].pc # "afterStop"

\* C17: restart() writes exactly one 'settings reloaded' record when it is
\* given a configuration, and with no configuration it writes none and leaves
\* conf as it is.  The record is written, and conf replaced, nowhere else, and
\* a restart() passes there once, between its stop() and its start().
C17_OneReloadRecord ==
    [][ /\ \A c \in Calls :
             /\ RestartGoesOn(c) =>
                  IF calls[c].arg # 0
                  THEN /\ hist'.reloadLog = hist.reloadLog + 1
                       /\ HasLayer(conf', Layers[calls[c].arg])
                  ELSE /\ hist'.reloadLog = hist.reloadLog
                       /\ conf' = conf
             /\ calls'[c].pc = "afterStop" /\ calls[c].pc # "afterStop" =>
                  calls[c].op \in { "none", "restart" } /\ calls'[c].fn = "stop"
             /\ calls[c].op = "restart" /\ calls[c].pc # "done" /\ calls'[c].pc = "done" =>
                  calls[c].fn = "start" \/ calls[c].pc = "afterStop"
        /\ ConfInstalled \/ conf' # conf =>
             \E c \in Calls : RestartGoesOn(c) /\ calls[c].arg # 0
      ]_vars

\* Two restarts have resolved, one with a configuration and one without.
C17_Witness ==
    /\ calls[1].op = "start"
    /\ calls[2].op = "restart" /\ calls[2].pc = "done"
    /\ calls[3].op = "restart" /\ calls[3].pc = "done"
    /\ hist.reloadLog = 1
    /\ hist.startup = 3
    /\ state = "running"

\* C18: state-based class.  The exposed-globals map lives for one running
\* cycle: no map exists, and call() shows no key, while state is 'standby';
\* a map comes into being only in a start, fresh and empty, in the step that
\* invokes the startup hook; the stop that reaches 'standby' discards it.
C18_GlobalsPerCycle ==
    /\ [](state = "standby" => ~global.defined /\ call = {})
    /\ [][ /\ HookInvoked => global'.defined /\ global'.keys = {} /\ call' = {}
           /\ ~global.defined /\ global'.defined => HookInvoked
           /\ BecomesStandby => ~global'.defined /\ call' = {}
           /\ call' # call /\ ~HookInvoked /\ ~BecomesStandby =>
                state = "starting" /\ call \subseteq call'
         ]_vars

\* A second cycle has begun, with a fresh map, after a whole first cycle.
C18_Witness ==
    /\ state = "starting"
    /\ hist.startup = 2
    /\ hist.stoppedLog = 1
    /\ global.defined /\ call = {}
    /\ \E c \in Calls : calls[c].pc = "startupHook"

\* The hook awaited by call c fails in this step.
StartupFails(c) ==
    calls[c].pc = "startupHook" /\ calls'[c].pc \in { "rejected", "lost" }

ShutdownFails(c) ==
    calls[c].pc = "shutdownHook" /\ calls'[c].pc \in { "rejected", "lost" }

\* Call c has ended with the failure of its hook, reported or not.
Failed(c, o) == calls[c].op = o /\ calls[c].pc \in { "rejected", "lost" }

\* C19: state-based class.  A failing hook is not swallowed and leaves the
\* server in the intermediate state.  When the startup hook fails, the start()
\* call rejects, state stays 'starting' and no listener is bound; when the
\* shutdown hook fails, the stop() call rejects, state stays 'stopping' and
\* the globals are kept.
C19_HookFailurePropagates ==
    /\ [](\A c \in Calls :
            /\ Failed(c, "start") => state = "starting" /\ BoundServers = {}
            /\ Failed(c, "stop") => state = "stopping" /\ global.defined)
    /\ [][ \A c \in Calls :
             /\ StartupFails(c) =>
                  /\ calls'[c].pc = "rejected"
                  /\ state' = "starting"
                  /\ servers' = servers /\ BoundServers = {}
             /\ ShutdownFails(c) =>
                  /\ calls'[c].pc = "rejected"
                  /\ state' = "stopping"
                  /\ global' = global /\ global.defined
         ]_vars

\* C20: state-based class.  A hook failure reaches the caller on the retry
\* path too: when a start() or stop() call first had to wait for the opposite
\* transition and the hook it then runs fails, the promise of that call is
\* rejected, not left pending.
C20_RetryPathRejects ==
    [][ \A c \in Calls :
          calls[c].via /\ (StartupFails(c) \/ ShutdownFails(c)) =>
              calls'[c].pc = "rejected" /\ calls'[c].res = "rejected"
      ]_vars

\* Call c has been made and has not settled.
Unsettled(c) == calls[c].op # "none" /\ calls[c].pc \notin { "done", "rejected" }

StopOnRunning(c) == calls[c].op = "stop" /\ calls[c].at = "running"

\* C22: promise-based class.  When stop() is called twice in immediate
\* succession on a running server, neither call fails, close() is called on
\* the listener once and the shutdown hook is invoked once.
C22_PromiseStopTwice ==
    /\ calls[1].op = "start"
    /\ StopOnRunning(2)
    /\ StopOnRunning(3)
    /\ calls[4].op = "none"
    => /\ hist.close <= 1
       /\ hist.shutdown <= 1
       /\ \A c \in { 2, 3 } : calls[c].pc \notin { "rejected", "lost" }

\* The API builder is invoked in this step.
APIBuilt == hist'.api # hist.api

Handled == res = NoRes /\ res' # NoRes

\* The request carries a body.
HasBody == req.body # ""

\* C24: content-type filter.  A request with a non-empty body whose declared
\* content-type is not in the whitelist is rejected with status 400 and a
\* body that names the reason ('Unsupported'), so not an empty one, and the
\* chain is not continued.
C24_UnsupportedIs400 ==
    [][ Handled /\ HasBody /\ req.type # Undefined
            /\ ~Includes(handler.types, req.type) =>
            /\ res'.status = 400
            /\ res'.body # ""
            /\ res'.ended /\ ~res'.next
      ]_vars

\* C25: content-type filter.  A request with a non-empty body and no declared
\* content-type is rejected with status 400 and a body that names the reason
\* ('Missing'), so not an empty one, and the chain is not continued.
C25_MissingIs400 ==
    [][ Handled /\ HasBody /\ req.type = Undefined =>
            /\ res'.status = 400
            /\ res'.body # ""
            /\ res'.ended /\ ~res'.next
      ]_vars

\* The chain continues and the filter has written nothing.
Admitted(r) == r.next /\ ~r.ended /\ r.status = 0 /\ r.body = ""

\* C26: content-type filter.  A request with an empty body is always admitted,
\* whatever the whitelist and whatever content-type it declares or omits.
C26_EmptyBodyAdmitted ==
    [][ Handled /\ ~HasBody => Admitted(res') ]_vars

\* An empty request whose declared type is not in the whitelist went through.
C26_Witness ==
    /\ handler.made
    /\ Len(handler.types) = MaxTypes
    /\ ~HasBody
    /\ req.type = "text/xml"
    /\ Admitted(res)

\* The full mime-type an entry of the whitelist stands for.
Alias(e) ==
    CASE e = "json" -> "application/json"
      [] e = "urlencoded" -> "application/x-www-form-urlencoded"
      [] e = "form" -> "multipart/form-data"
      [] OTHER -> e

\* C27: accept(types) takes one type or a list; the filter holds one entry per
\* type given, 'json', 'urlencoded' and 'form' replaced by their full
\* mime-types and every other entry as given; a request with a non-empty body
\* whose content-type equals one of these entries is admitted.
C27_AliasesExpanded ==
    /\ [](handler.made =>
            /\ "single" \in DOMAIN types =>
                 handler.types = << Alias(types.single) >>
            /\ "list" \in DOMAIN types =>
                 /\ Len(handler.types) = Len(types.list)
                 /\ \A i \in DOMAIN types.list :
                      handler.types[i] = Alias(types.list[i]))
    /\ [][ Handled /\ HasBody /\ (\E i \in DOMAIN handler.types :
                                    handler.types[i] = req.type) =>
               Admitted(res')
         ]_vars

\* A JSON body went through a whitelist given as [ 'json', 'text/html' ].
C27_Witness ==
    /\ types = [ list |-> << "json", "text/html" >> ]
    /\ handler.made
    /\ HasBody
    /\ req.type = "application/json"
    /\ Admitted(res)

\* setup() is called in this step, by the constructor or by the application.
SetupRuns == state' = "standby"

HandlerOptions == { "api", "startup", "shutdown", "server" }

\* The argument of the constructor is not an object.
NotAnObject(o) == o.is \in { "boolean", "null" }

\* An option is given and is not a function.
GivenNotFunction(o) ==
    \E f \in HandlerOptions : o[f] \notin { "undefined", "function" }

\* An option holds a truthy value that is not a function.
TruthyNotFunction(o) == \E f \in HandlerOptions : o[f] = "truthy"

\* The constructor runs in this step.
Constructs == state = Undefined /\ (thrown' # thrown \/ state' # state)

\* The constructor throws a TypeError and leaves no instance.
ThrowsTypeError ==
    /\ thrown' = "TypeError"
    /\ state' = Undefined
    /\ conf' = conf /\ hist' = hist

\* The constructor yields an instance in 'standby'.
YieldsInstance == thrown' = "none" /\ state' = "standby"

\* C29 as claimed: the constructor throws a TypeError, before any state of
\* the server exists, when its argument is not an object or when the api,
\* startup, shutdown or server option is given and is not a function; else it
\* yields an instance whose state is 'standby'.
C29_ConstructorValidates ==
    [][ Constructs =>
          IF NotAnObject(opts) \/ GivenNotFunction(opts)
          THEN ThrowsTypeError
          ELSE YieldsInstance
      ]_vars

\* C29 as amended: the same for an option that holds a truthy value that is
\* not a function; an option that holds a falsy value (0, '', null, false)
\* counts as left out.
C29_ConstructorValidatesTruthy ==
    [][ Constructs =>
          IF NotAnObject(opts) \/ TruthyNotFunction(opts)
          THEN ThrowsTypeError
          ELSE YieldsInstance
      ]_vars

\* new Nodecaf({ startup: 3 }) has thrown.
C29_Witness ==
    /\ thrown = "TypeError"
    /\ state = Undefined
    /\ opts.is = "object"
    /\ opts.startup = "truthy"
    /\ \A f \in HandlerOptions \ { "startup" } : opts[f] = "undefined"

RECURSIVE Layered(_)
\* The configuration the layers given so far make up, the later over the
\* earlier, before any default.
Layered(ls) ==
    IF ls = << >> THEN << >>
    ELSE Merge(Layered(SubSeq(ls, 1, Len(ls) - 1)), ls[Len(ls)])

\* The port the configuration given calls for.
PortFor(c) ==
    IF ConfPort(c) # 0 THEN ConfPort(c)
    ELSE IF ConfSsl(c) # 0 THEN 443 ELSE 80

\* C30: promise-based class.  After every setup(), conf.port is the port
\* configured when one is, otherwise 443 when ssl material is configured,
\* otherwise 80; start() hands that port to listen().
C30_PortDefault ==
    /\ [](Len(layers) >= 1 => ConfPort(conf) = PortFor(Layered(layers)))
    /\ [][ listenPort' # listenPort => listenPort' = ConfPort(conf) ]_vars

\* The chain of request r has failed at one of its handlers.
ChainFailed(r) == ctx[r].pc = "done" /\ ctx[r].failure.at # 0

\* No handler after the one that failed has run.
ChainAborted(r) == \A i \in ctx[r].ran : i <= ctx[r].failure.at

\* The failure became a response.
Answered(r) == ctx[r].res.ended

\* C31 as stated: whenever a handler throws, rejects, or calls error() with an
\* unrecognized kind or a plain Error, the status is 500, no later handler of
\* the chain has run, and the failure ended as a response.
C31_FailureIs500 ==
    \A r \in DOMAIN ctx :
        ( /\ ChainFailed(r)
          /\ \/ ctx[r].failure.how \in { "throw", "reject" }
             \/ ~Recognized(ctx[r].failure.e) )
        => ( ctx[r].res.status = 500 /\ ChainAborted(r) /\ Answered(r) )

\* C31 amended: every failure aborts the chain and ends as a response; the
\* status is 500 when the value is of no recognized kind, the response had not
\* been sent before, and the interceptor sends none of its own.
C31_UnknownFailureIs500 ==
    \A r \in DOMAIN ctx :
        ChainFailed(r)
        => /\ ChainAborted(r)
           /\ Answered(r)
           /\ ( /\ ~Recognized(ctx[r].failure.e)
                /\ ~ctx[r].failure.sent
                /\ router.onRouteError # "override" )
              => ctx[r].res.status = 500

C31_Witness ==
    \E r \in DOMAIN ctx :
        /\ ChainFailed(r)
        /\ ctx[r].failure.how = "reject"
        /\ ctx[r].failure.e = PlainError
        /\ ctx[r].failure.at = 2
        /\ ctx[r].ran = { 1, 2 }
        /\ ctx[r].res.status = 500

\* The adapted function has run to its end.
Ended == adapter.pc = "done"

\* C32: called with (continuation, ...args), an adapted handler calls the
\* continuation exactly once: with the value thrown when the handler throws,
\* with the rejection value when its promise rejects, with no error argument
\* when it completes; until then the continuation is not called.
C32_ContinuationOnce ==
    /\ adapter.pc \in { "idle", "pending" } => adapter.continuation = << >>
    /\ Ended =>
        /\ Len(adapter.continuation) = 1
        /\ adapter.received = adapter.args
        /\ adapter.func.does \in { "throw", "reject" }
             => adapter.continuation[1] = WithError(adapter.func.value)
        /\ adapter.func.does \in { "return", "resolve" }
             => adapter.continuation[1] = WithNoError

C32_Witness ==
    /\ Ended
    /\ adapter.func = [ does |-> "reject", value |-> "foobar" ]
    /\ adapter.args = << "bar" >>
    /\ adapter.continuation = << WithError("foobar") >>

\* The status the documentation gives for each error name.
KindStatus ==
    [ NotFound |-> 404, Unauthorized |-> 401, ServerFault |-> 500,
      InvalidActionForState |-> 405, InvalidCredentials |-> 400,
      InvalidContent |-> 400 ]

\* Request r got the response error() sends by default.
Signalled(r) ==
    /\ ChainFailed(r)
    /\ ctx[r].failure.how = "error"
    /\ router.onRouteError # "override"

WroteBefore(r, i) == { j \in ctx[r].wrote : j < i }

\* The flash value the handlers of request r left for handler i.
Left(r, i) ==
    IF WroteBefore(r, i) = {} THEN NoFlash
    ELSE [ by |-> r,
           at |-> CHOOSE j \in WroteBefore(r, i) :
                     \A k \in WroteBefore(r, i) : k <= j ]

\* C34: a handler sees in flash what the earlier handlers of the chain of its
\* own request left there, unmodified, and nothing of any other request, a
\* concurrent one to the same route included.
C34_FlashPerRequest ==
    \A r \in DOMAIN ctx :
        \A i \in ctx[r].ran : ctx[r].seen[i] = Left(r, i)

C34_Witness ==
    /\ ctx[1].route = ctx[2].route
    /\ ctx[1].route \in Routes
    /\ 1 \in ctx[1].wrote
    /\ 1 \in ctx[2].wrote
    /\ 2 \in ctx[2].ran
    /\ ctx[2].seen[2] = [ by |-> 2, at |-> 1 ]
    /\ 2 \in ctx[1].ran
    /\ ctx[1].seen[2] = [ by |-> 1, at |-> 1 ]

\* Request r matched a route and went through the gate.
Gated(r) == ctx[r].pc # "idle" /\ ctx[r].route \in Routes

\* The gate let request r through to the chain of its route.
PassedGate(r) == ctx[r].pos >= 1

\* The list lets the request of r through.
Lets(w, r) ==
    \/ ctx[r].req.body = ""
    \/ \E i \in DOMAIN w.list : w.list[i] = ctx[r].req.type

\* C35: a request to a route with a whitelist of its own is gated by that
\* list alone; a request to any other route is gated by the API-wide list,
\* when there is one.
C35_RouteWhitelistOverrides ==
    \A r \in DOMAIN ctx :
        Gated(r) =>
            LET own == router.routes[ctx[r].route]
                api == router.accepts
            IN  IF own # [ undefined |-> TRUE ]
                THEN PassedGate(r) <=> Lets(own, r)
                ELSE IF api # [ undefined |-> TRUE ]
                THEN PassedGate(r) <=> Lets(api, r)
                ELSE PassedGate(r)

C35_Witness ==
    \E r \in DOMAIN ctx :
        /\ Gated(r)
        /\ ctx[r].route = 1
        /\ router.routes[1] = [ list |-> << "text/html" >> ]
        /\ router.accepts = [ list |-> << "application/json" >> ]
        /\ ctx[r].req.type = "text/html"
        /\ ctx[r].req.body # ""
        /\ PassedGate(r)

\* What the callbacks of a connection have seen so far is in order.
Orderly(c) ==
    /\ c.pc = "refused" => ( c.connects = 0 /\ c.delivered = << >> /\ c.closes = 0 )
    /\ c.pc \in { "open", "closed" } => c.connects = 1
    /\ c.delivered \o c.inbox = [ i \in 1..c.arrived |-> i ]
    /\ Cardinality(InFlight(c)) <= 1
    /\ c.closes <= 1
    /\ c.closes = 1 =>
         ( c.ended /\ c.finished = [ i \in 1..c.arrived |-> i ] )

\* C36: an upgrade to a path that is not registered is refused; on a
\* registered path connect is called once per handshake, message once per
\* frame in the order of arrival and never while an earlier message callback
\* of the connection is running, and close once, after every message of the
\* connection has been handled to its end.
C36_WebSocketEvents ==
    /\ [](\A k \in Conns : Orderly(ws[k]))
    /\ \A k \in Conns : ( ws[k].ended ~> ws[k].closes = 1 )

C36_Witness ==
    /\ ws[1].pc = "closed"
    /\ ws[1].arrived = 2
    /\ ws[1].finished = << 1, 2 >>
    /\ ws[1].closes = 1
    /\ ws[2].pc = "refused"

\* The startup hook has failed: a start() or restart() call has ended with
\* the failure and the server is left in 'starting'.
StartupHasFailed ==
    /\ state = "starting"
    /\ \E c \in Calls :
         calls[c].op \in { "start", "restart" } /\ calls[c].pc \in { "rejected", "lost" }

\* start() is called in this step as call c.
StartCalled(c) == calls[c].op = "none" /\ calls'[c].op = "start"

\* C37: state-based class.  Once the startup hook has failed, no start(),
\* stop() or restart() call changes the state again: it stays 'starting', no
\* hook is invoked, no listener is created, the configuration and the globals
\* stay as they are, and every later start() returns 'starting' at once.
C37_StartupFailureWedges ==
    [][ StartupHasFailed =>
          /\ state' = "starting"
          /\ servers' = servers /\ _server' = _server
          /\ conf' = conf /\ global' = global
          /\ hist' = hist
          /\ \A c \in Calls :
               StartCalled(c) => calls'[c].pc = "done" /\ calls'[c].res = "starting"
      ]_vars

\* start() has failed in its hook; a later start() has returned 'starting'
\* and a later stop() is polling.
C37_Witness ==
    /\ calls[1].op = "start" /\ calls[1].pc = "rejected"
    /\ calls[2].op = "start" /\ calls[2].pc = "done" /\ calls[2].res = "starting"
    /\ calls[3].op = "stop" /\ calls[3].pc = "retry"
    /\ state = "starting"

\* The entries of the whitelist given to accept(), aliases replaced.
Whitelisted ==
    { Alias(Concat(types)[i]) : i \in DOMAIN Concat(types) }

\* The filter ended the response with an error status and did not go on.
Refused(r) == r.ended /\ r.status >= 400 /\ ~r.next

\* C38: content-type filter.  For every request the filter does one of two
\* things, once: it calls next() and leaves the response untouched, or it ends
\* the response with an error status and does not call next(); it admits the
\* request exactly when the body is empty or the content-type is in the
\* expanded whitelist.
C38_FilterDecidesOnce ==
    [][ Handled =>
          IF ~HasBody \/ req.type \in Whitelisted
          THEN Admitted(res') /\ ~Refused(res')
          ELSE Refused(res') /\ ~Admitted(res')
      ]_vars

\* A request with a body of a type outside the whitelist has been refused.
C38_Witness ==
    /\ handler.made
    /\ types = [ single |-> "json" ]
    /\ HasBody
    /\ req.type = "text/html"
    /\ Refused(res)

\* call() invokes fn in this step.
Invokes == invoked' # invoked

\* The keys of this.global, none when it is undefined.
GlobalKeysNow == IF global.defined THEN global.keys ELSE {}

\* C39: state-based class.  call(fn, ...args) invokes fn once, with a bundle
\* that holds every exposed key plus conf and log, followed by the arguments;
\* conf and log of the bundle are this.conf and this.log as they are at the
\* call, also when the globals hold keys named 'conf' or 'log'; in standby,
\* with this.global undefined, the bundle holds conf and log only.
C39_CallBundle ==
    [][ Invokes =>
          \E a \in ArgLists :
            /\ invoked' = Append(invoked, [ bundle |-> invoked'[Len(invoked')].bundle,
                                            args |-> a ])
            /\ LET b == invoked'[Len(invoked')].bundle
               IN  /\ DOMAIN b = GlobalKeysNow \cup { "conf", "log" }
                   /\ b["conf"] = [ conf |-> conf ]
                   /\ b["log"] = [ log |-> TRUE ]
                   /\ \A k \in GlobalKeysNow \ { "conf", "log" } : b[k] = [ global |-> k ]
      ]_vars

\* fn was invoked twice on a running server that exposes db, conf and log,
\* the configuration replaced in between.
C39_Witness ==
    /\ state = "running"
    /\ global.keys = ExposedKeys
    /\ Len(invoked) = 2
    /\ invoked[1].bundle["conf"] # invoked[2].bundle["conf"]
    /\ invoked[2].bundle["conf"] = [ conf |-> conf ]
    /\ invoked[2].bundle["db"] = [ global |-> "db" ]
    /\ invoked[2].args = << "bar", "baz" >>

====
